---- MODULE Spec2Model ----
(***************************************************************************)
(* Model of src/code/converter.py: the conversion of one dependency-parsed *)
(* sentence from basic to enhanced Universal Dependencies.                 *)
(*                                                                         *)
(* A sentence is a sequence of tokens; token i has the id i (surface       *)
(* order is numeric id order).  Multiword range tokens ("3-4") are left    *)
(* out: every loop of the converter skips them.                            *)
(*                                                                         *)
(* deps[t] is token t's enhanced edge dictionary, kept as the sequence of  *)
(* <<governor, label>> items in insertion order (a Python dict).           *)
(* children[g] is token2children[sentence.id][g], a list of token objects. *)
(* The converter parses the file twice: the objects put into the lists by  *)
(* generate_token2children are not the objects of the sentence being       *)
(* converted.  An entry -t is the object of token t from the index's own   *)
(* parse (its deps stay empty), an entry t is the object of the sentence   *)
(* being converted.  pyconll compares two tokens by their columns, deps    *)
(* included.                                                               *)
(***************************************************************************)
EXTENDS Integers, Sequences, FiniteSets, TLC

VARIABLES sent, use_xsubj, deps, children, pc, run, err, log, ev

vars == <<sent, use_xsubj, deps, children, pc, run, err, log, ev>>

(***************************************************************************)
(* Bounds of the model.                                                    *)
(***************************************************************************)
MaxTok == 4

(***************************************************************************)
(* Vocabulary.                                                             *)
(***************************************************************************)
NoRel == "none"
SubjRels == {"nsubj", "nsubj:pass"}
ObjLike == {"obj", "iobj"}                 \* deprels that contain "obj"
RootSharedRels == {"nsubj", "aux", "xcomp", "acl"}
NotPropagated == {"parataxis", "appos"}
ReflexiveTags == {"PRF", "PRP"}

Tok(e) == IF e < 0 THEN -e ELSE e

(***************************************************************************)
(* The deps dictionary of one token.                                       *)
(***************************************************************************)
DepsHas(d, h) == \E k \in 1..Len(d) : d[k][1] = h

DepsGet(d, h) ==
    IF DepsHas(d, h) THEN d[CHOOSE k \in 1..Len(d) : d[k][1] = h][2] ELSE NoRel

DepsSet(d, h, r) ==
    IF DepsHas(d, h)
    THEN [k \in 1..Len(d) |-> IF d[k][1] = h THEN <<h, r>> ELSE d[k]]
    ELSE Append(d, <<h, r>>)

DepsPairs(d) == {d[k] : k \in 1..Len(d)}

(***************************************************************************)
(* A conversion state st = [deps, children, err, ev]: the two mutable      *)
(* structures, the KeyError raised if any ("ok": none), and the record of  *)
(* what the rules did (ev, used only to state properties).                 *)
(***************************************************************************)
SetDep(st, t, h, r) == [st EXCEPT !.deps[t] = DepsSet(@, h, r)]

\* token2children[sentence.id][g].append(e); the index has no key '0'
AppendChild(st, g, e) ==
    IF g \in DOMAIN st.children
    THEN [st EXCEPT !.children[g] = Append(@, e)]
    ELSE [st EXCEPT !.err = "no_list"]

NoteSubj(st, e) == [st EXCEPT !.ev.subj = Append(@, e)]
NoteProm(st, e) == [st EXCEPT !.ev.prom = Append(@, e)]
NoteRw(st, e) == [st EXCEPT !.ev.rw = Append(@, e)]

\* deps[g] of a token that has no edge into g
Raise(st) == [st EXCEPT !.err = "no_edge"]

Failed(st) == st.err # "ok"

(***************************************************************************)
(* Detectors.                                                              *)
(***************************************************************************)
is_raising_control(s) ==
    \E i \in 1..Len(s) :
        /\ s[i].deprel = "xcomp"
        /\ s[i].upos \in {"VERB", "ADJ", "NOUN"}
        /\ s[s[i].head].upos \in {"VERB", "ADJ"}

is_relative(s) ==
    \E i \in 1..Len(s) :
        \/ s[i].deprel = "acl:relcl"
        \/ s[i].deprel = "acl" /\ s[s[i].head].upos # "VERB"

is_conjunction(s) == \E i \in 1..Len(s) : s[i].deprel = "conj"

(***************************************************************************)
(* generate_token2children and the seeding loop of convert.                *)
(***************************************************************************)
IdSeq(n) == [i \in 1..n |-> i]

BasicChildren(s, g) ==
    LET f == SelectSeq(IdSeq(Len(s)), LAMBDA i : s[i].head = g)
    IN  [k \in 1..Len(f) |-> -f[k]]

generate_token2children(s) == [g \in 1..Len(s) |-> BasicChildren(s, g)]

SeedDeps(s) == [i \in 1..Len(s) |-> << <<s[i].head, s[i].deprel>> >>]

(***************************************************************************)
(* apply_conjunction.                                                      *)
(***************************************************************************)
\* lines 156-162: KeyError when a listed child has no edge into conj_child
SubjectCheckFails(st, c) ==
    \E k \in 1..Len(st.children[c]) :
        ~DepsHas(st.deps[Tok(st.children[c][k])], c)

HasSubjectNever(st, c) == FALSE

HasSubject(st, c) ==
    \E k \in 1..Len(st.children[c]) :
        DepsGet(st.deps[Tok(st.children[c][k])], c) \in SubjRels

\* some token holds a subject edge into c (read from the edges themselves)
SubjectEdgeInto(st, c) ==
    \E t \in DOMAIN st.deps : DepsGet(st.deps[t], c) \in SubjRels

\* lines 165-179, over the list L = token2children[conj_head]
RECURSIVE ShareSubject(_, _, _, _, _, _)
ShareSubject(st, c, h, L, k, had) ==
    IF k > Len(L) \/ Failed(st) THEN st
    ELSE LET t == Tok(L[k])
         IN  IF ~DepsHas(st.deps[t], h) THEN Raise(st)
             ELSE LET r == DepsGet(st.deps[t], h)
                  IN  IF r \in SubjRels /\ r \notin {"parataxis"}
                      THEN ShareSubject(
                               NoteSubj(AppendChild(SetDep(st, t, c, r), c, t),
                                        [c |-> c, child |-> t, had |-> had]),
                               c, h, L, k + 1, had)
                      ELSE ShareSubject(st, c, h, L, k + 1, had)

\* lines 182-187: the last listed child of conj_head whose deprel contains "obj"
LastObjChild(s, L) ==
    LET K == {k \in 1..Len(L) : s[Tok(L[k])].deprel \in ObjLike}
    IN  IF K = {} THEN 0 ELSE L[CHOOSE k \in K : \A j \in K : j <= k]

\* lines 188-199
ShareObject(s, st, c, h) ==
    LET o == LastObjChild(s, st.children[h])
    IN  IF o # 0 /\ c > h /\ Tok(o) > c
        THEN AppendChild(SetDep(st, Tok(o), c, "obj"), c, o)
        ELSE st

\* lines 151-199
ConjVerbal(s, st, c, h) ==
    IF SubjectCheckFails(st, c) THEN Raise(st)
    ELSE LET s1 == IF HasSubject(st, c) THEN st
                   ELSE ShareSubject(st, c, h, st.children[h], 1,
                                     SubjectEdgeInto(st, c))
         IN  IF Failed(s1) THEN s1 ELSE ShareObject(s, s1, c, h)

\* lines 201-209
ChainApplies(s, h) ==
    /\ s[h].head # 0
    /\ s[s[h].head].head # 0
    /\ s[h].deprel = "conj"

ConjChained(s, st, c, h) ==
    LET hh == s[h].head
    IN  IF s[hh].deprel # "conj"
        THEN AppendChild(SetDep(st, c, s[hh].head, s[hh].deprel), s[hh].head, c)
        ELSE st

\* lines 212-222, over the items D of conj_head.deps
RECURSIVE ConjStandard(_, _, _, _)
ConjStandard(st, c, D, k) ==
    IF k > Len(D) \/ Failed(st) THEN st
    ELSE IF D[k][2] \notin NotPropagated
         THEN ConjStandard(AppendChild(SetDep(st, c, D[k][1], D[k][2]), D[k][1], c),
                           c, D, k + 1)
         ELSE ConjStandard(st, c, D, k + 1)

\* lines 224-234, over the list L = token2children[conj_head]
RECURSIVE ConjRoot(_, _, _, _, _)
ConjRoot(s, st, c, L, k) ==
    IF k > Len(L) \/ Failed(st) THEN st
    ELSE IF s[Tok(L[k])].deprel \in RootSharedRels
         THEN ConjRoot(s, AppendChild(SetDep(st, Tok(L[k]), c, s[Tok(L[k])].deprel),
                                      c, L[k]),
                       c, L, k + 1)
         ELSE ConjRoot(s, st, c, L, k + 1)

\* lines 147-234 for one conj token c
ConjToken(s, st, c) ==
    LET h == s[c].head
    IN  IF s[c].upos = "VERB" THEN ConjVerbal(s, st, c, h)
        ELSE IF ChainApplies(s, h) THEN ConjChained(s, st, c, h)
        ELSE IF s[h].head # 0 THEN ConjStandard(st, c, st.deps[h], 1)
        ELSE ConjRoot(s, st, c, st.children[h], 1)

RECURSIVE ConjLoop(_, _, _)
ConjLoop(s, st, i) ==
    IF i > Len(s) \/ Failed(st) THEN st
    ELSE ConjLoop(s, IF s[i].deprel = "conj" THEN ConjToken(s, st, i) ELSE st, i + 1)

apply_conjunction(s, st) == ConjLoop(s, st, 1)

\* the loop of lines 145-234 over the tokens i..n only: the state in which
\* token n + 1 is processed
RECURSIVE ConjLoopTo(_, _, _, _)
ConjLoopTo(s, st, i, n) ==
    IF i > n \/ Failed(st) THEN st
    ELSE ConjLoopTo(s, IF s[i].deprel = "conj" THEN ConjToken(s, st, i) ELSE st, i + 1, n)

(***************************************************************************)
(* apply_relative.                                                         *)
(***************************************************************************)
\* lines 258-263: the lowest-id listed child of acl_child that is not punct
Relativizer(s, st, r) ==
    LET C == {Tok(st.children[r][k]) : k \in 1..Len(st.children[r])}
        Q == {t \in C : s[t].deprel # "punct"}
    IN  IF Q = {} THEN 0 ELSE CHOOSE t \in Q : \A u \in Q : t <= u

\* list.remove(x): drop the first element that equals x
RECURSIVE RemoveFirst(_, _)
RemoveFirst(L, M) ==
    IF L = <<>> THEN L
    ELSE IF Head(L) \in M THEN Tail(L)
    ELSE <<Head(L)>> \o RemoveFirst(Tail(L), M)

\* "for x in L: if x is token p: L.remove(...)": the list iterator keeps an
\* index, so the element that follows a removed one is not visited.
\* M(e) is the set of entries that compare equal to the visited entry e.
RECURSIVE RemoveWhileIterating(_, _, _, _)
RemoveWhileIterating(L, i, p, byObject) ==
    IF i > Len(L) THEN L
    ELSE IF Tok(L[i]) = p
         THEN RemoveWhileIterating(
                  RemoveFirst(L, IF byObject THEN {L[i]} ELSE {p, -p}),
                  i + 1, p, byObject)
         ELSE RemoveWhileIterating(L, i + 1, p, byObject)

\* lines 281-286 and 319-324: the deps of p were just cleared, so every
\* object of token p equals it
DetachAll(st, p) ==
    [st EXCEPT !.children =
        [g \in DOMAIN st.children |-> RemoveWhileIterating(st.children[g], 1, p, FALSE)]]

ListsHolding(st, p) ==
    {g \in DOMAIN st.children :
        \E k \in 1..Len(st.children[g]) : Tok(st.children[g][k]) = p}

RewriteEvent(st, branch, p, ant, r, before) ==
    [branch |-> branch, tok |-> p, ant |-> ant, r |-> r, before |-> before,
     lists |-> ListsHolding(st, p), after |-> st.deps[p]]

\* lines 272-275: the first listed child of the possessed noun with the form
\* "deren" or "dessen" (0 when there is none)
PossessiveChild(s, L) ==
    LET K == {k \in 1..Len(L) : s[Tok(L[k])].form \in {"deren", "dessen"}}
    IN  IF K = {} THEN 0 ELSE L[CHOOSE k \in K : \A j \in K : k <= j]

\* lines 267-301
RelPossessive(s, st, r, ant, noun) ==
    LET P == PossessiveChild(s, st.children[noun])
        p == Tok(P)
    IN  IF P = 0 THEN st
        ELSE LET s1 == [st EXCEPT !.deps[p] = <<>>]
                 s2 == DetachAll(s1, p)
                 s3 == AppendChild(SetDep(s2, p, ant, "ref"), ant, P)
                 s4 == AppendChild(SetDep(s3, ant, noun, "nmod:poss"), noun, ant)
             IN  NoteRw(s4, RewriteEvent(s4, "poss", p, ant, r, DepsPairs(st.deps[p])))

\* lines 308-316, over the keys D of relativizer.deps.  relation_head[0] is
\* the first character of a governor id, which never is "ref".
RECURSIVE Repoint(_, _, _, _, _)
Repoint(st, D, k, ant, rel) ==
    IF k > Len(D) \/ Failed(st) THEN st
    ELSE LET g == D[k][1]
             s1 == SetDep(st, ant, g, DepsGet(st.deps[rel], g))
             s2 == AppendChild(s1, g, ant)
         IN  IF Failed(s2) THEN s2
             ELSE Repoint([s2 EXCEPT !.children[g] =
                               RemoveWhileIterating(@, 1, rel, TRUE)],
                          D, k + 1, ant, rel)

\* lines 303-328
RelPlain(s, st, r, ant, rel) ==
    LET s1 == Repoint(st, st.deps[rel], 1, ant, rel)
    IN  IF Failed(s1) THEN s1
        ELSE LET s2 == [s1 EXCEPT !.deps[rel] = <<>>]
                 s3 == DetachAll(s2, rel)
                 s4 == AppendChild(SetDep(s3, rel, ant, "ref"), ant, rel)
             IN  NoteRw(s4, RewriteEvent(s4, "plain", rel, ant, r, DepsPairs(st.deps[rel])))

\* lines 250-328 for one token r with deprel acl:relcl or acl
RelToken(s, st, r) ==
    LET ant == s[r].head
        rel == Relativizer(s, st, r)
    IN  IF rel = 0 THEN st
        ELSE IF s[rel].upos = "NOUN" THEN RelPossessive(s, st, r, ant, rel)
        ELSE IF (s[rel].upos = "PRON" \/ s[rel].lemma = "wo") /\ s[rel].xpos # "PRF"
             THEN RelPlain(s, st, r, ant, rel)
        ELSE st

RECURSIVE RelLoop(_, _, _)
RelLoop(s, st, i) ==
    IF i > Len(s) \/ Failed(st) THEN st
    ELSE RelLoop(s, IF s[i].deprel \in {"acl:relcl", "acl"} THEN RelToken(s, st, i) ELSE st,
                 i + 1)

apply_relative(s, st) == RelLoop(s, st, 1)

\* the loop of lines 248-328 over the tokens i..n only: the state in which
\* token n + 1 is processed
RECURSIVE RelLoopTo(_, _, _, _)
RelLoopTo(s, st, i, n) ==
    IF i > n \/ Failed(st) THEN st
    ELSE RelLoopTo(s, IF s[i].deprel \in {"acl:relcl", "acl"} THEN RelToken(s, st, i) ELSE st,
                   i + 1, n)

(***************************************************************************)
(* apply_raising_control.                                                  *)
(***************************************************************************)
SubjLabel(xs) == IF xs THEN "nsubj:xsubj" ELSE "nsubj"

\* the test of case 1 (lines 350) and case 2 (line 364) on a listed child
ObjectCase(s, e, rel) ==
    s[Tok(e)].deprel = rel /\ s[Tok(e)].xpos \notin ReflexiveTags

\* lines 349-359 (rel = "iobj", n = 1) and 363-373 (rel = "obj", n = 2);
\* seen records which object cases the list offered when x was processed
RECURSIVE PromoteObjects(_, _, _, _, _, _, _, _, _)
PromoteObjects(s, st, x, L, k, rel, n, xs, seen) ==
    IF k > Len(L) THEN st
    ELSE IF ObjectCase(s, L[k], rel)
         THEN PromoteObjects(s,
                  NoteProm(AppendChild(SetDep(st, Tok(L[k]), x, SubjLabel(xs)), x, L[k]),
                           [x |-> x, child |-> Tok(L[k]), case |-> n, seen |-> seen]),
                  x, L, k + 1, rel, n, xs, seen)
         ELSE PromoteObjects(s, st, x, L, k + 1, rel, n, xs, seen)

\* lines 377-386
RECURSIVE PromoteSubject(_, _, _, _, _, _, _)
PromoteSubject(st, x, h, L, k, xs, seen) ==
    IF k > Len(L) \/ Failed(st) THEN st
    ELSE LET t == Tok(L[k])
         IN  IF ~DepsHas(st.deps[t], h) THEN Raise(st)
             ELSE IF DepsGet(st.deps[t], h) = "nsubj"
                  THEN PromoteSubject(
                           NoteProm(AppendChild(SetDep(st, t, x, SubjLabel(xs)), x, L[k]),
                                    [x |-> x, child |-> t, case |-> 3, seen |-> seen]),
                           x, h, L, k + 1, xs, seen)
                  ELSE PromoteSubject(st, x, h, L, k + 1, xs, seen)

ObjectCasesSeen(s, L) ==
    {n \in {1, 2} : \E k \in 1..Len(L) : ObjectCase(s, L[k], IF n = 1 THEN "iobj" ELSE "obj")}

\* the three cases without the "continue" between them
RCTokenAllCases(s, st, x, xs) ==
    LET h == s[x].head
        L == st.children[h]
        seen == ObjectCasesSeen(s, L)
        s1 == PromoteObjects(s, st, x, L, 1, "iobj", 1, xs, seen)
        s2 == PromoteObjects(s, s1, x, L, 1, "obj", 2, xs, seen)
    IN  PromoteSubject(s2, x, h, L, 1, xs, seen)

\* lines 348-386 for one xcomp token x whose head is not "lassen"
RCToken(s, st, x, xs) ==
    LET h == s[x].head
        L == st.children[h]
        seen == ObjectCasesSeen(s, L)
    IN  IF 1 \in seen THEN PromoteObjects(s, st, x, L, 1, "iobj", 1, xs, seen)
        ELSE IF 2 \in seen THEN PromoteObjects(s, st, x, L, 1, "obj", 2, xs, seen)
        ELSE PromoteSubject(st, x, h, L, 1, xs, seen)

\* "continue" in place of "return" at an xcomp token governed by "lassen"
RECURSIVE RCLoopSkipsLassen(_, _, _, _)
RCLoopSkipsLassen(s, st, i, xs) ==
    IF i > Len(s) \/ Failed(st) THEN st
    ELSE IF s[i].deprel = "xcomp" /\ s[s[i].head].lemma # "lassen"
         THEN RCLoopSkipsLassen(s, RCToken(s, st, i, xs), i + 1, xs)
         ELSE RCLoopSkipsLassen(s, st, i + 1, xs)

\* lines 341-347: the rule returns at the first xcomp token governed by "lassen"
RECURSIVE RCLoop(_, _, _, _)
RCLoop(s, st, i, xs) ==
    IF i > Len(s) \/ Failed(st) THEN st
    ELSE IF s[i].deprel = "xcomp"
         THEN IF s[s[i].head].lemma = "lassen" THEN st
              ELSE RCLoop(s, RCToken(s, st, i, xs), i + 1, xs)
         ELSE RCLoop(s, st, i + 1, xs)

apply_raising_control(s, st, xs) == RCLoop(s, st, 1, xs)

(***************************************************************************)
(* Input sentences: well-formed basic trees (one root, whose deprel is     *)
(* root; every other head is a token of the sentence; no cycle), with      *)
(* empty enhanced sets.                                                    *)
(***************************************************************************)
RECURSIVE ReachesRoot(_, _, _)
ReachesRoot(h, i, fuel) ==
    IF i = 0 THEN TRUE
    ELSE IF fuel = 0 THEN FALSE
    ELSE ReachesRoot(h, h[i], fuel - 1)

Trees(n) ==
    {h \in [1..n -> 0..n] :
        /\ Cardinality({i \in 1..n : h[i] = 0}) = 1
        /\ \A i \in 1..n : ReachesRoot(h, i, n)}

Token(h, p) ==
    [head |-> h, deprel |-> IF h = 0 THEN "root" ELSE p.deprel, upos |-> p.upos,
     lemma |-> p.lemma, form |-> p.form, xpos |-> p.xpos]

Sentences(n, P) ==
    {[i \in 1..n |-> Token(h[i], p[i])] : h \in Trees(n), p \in [1..n -> P]}

Prof(d, u, l, f, x) == [deprel |-> d, upos |-> u, lemma |-> l, form |-> f, xpos |-> x]

(***************************************************************************)
(* convert, for one sentence.  pc = 0: the sentence is loaded and the      *)
(* children index built; pc = k in 1..8: the k-th position of the schedule *)
(* is next; pc = Done: the sentence is converted.  A KeyError ends the     *)
(* conversion where it is raised (err).                                    *)
(***************************************************************************)
ScheduleRelativeFirst == <<"conj", "conj", "rel", "conj", "rc", "conj", "conj", "conj">>

\* lines 90-102
Schedule == <<"conj", "conj", "rc", "conj", "rel", "conj", "conj", "conj">>

Done == Len(Schedule) + 1

NoEvents == [subj |-> <<>>, prom |-> <<>>, rw |-> <<>>, first |-> <<>>, mark |-> [subj |-> 0, rw |-> 0]]

St == [deps |-> deps, children |-> children, err |-> err, ev |-> ev]

InitWith(S, X) ==
    /\ sent \in S
    /\ use_xsubj \in X
    /\ deps = [i \in 1..Len(sent) |-> <<>>]
    /\ children = generate_token2children(sent)
    /\ pc = 0
    /\ run = 1
    /\ err = "ok"
    /\ log = <<>>
    /\ ev = NoEvents

Commit(st, rule) ==
    /\ deps' = st.deps
    /\ children' = st.children
    /\ err' = st.err
    /\ ev' = st.ev
    /\ log' = Append(log, rule)
    /\ pc' = IF Failed(st) THEN pc ELSE pc + 1
    /\ UNCHANGED <<sent, use_xsubj, run>>

Skip ==
    /\ pc' = pc + 1
    /\ UNCHANGED <<sent, use_xsubj, deps, children, run, err, log, ev>>

At(rule) == pc \in 1..Len(Schedule) /\ Schedule[pc] = rule /\ err = "ok"

\* lines 83-87
Seed ==
    /\ pc = 0
    /\ deps' = SeedDeps(sent)
    /\ pc' = 1
    /\ UNCHANGED <<sent, use_xsubj, children, run, err, log, ev>>

\* lines 90-92, 95-96, 99-102
Conjunction ==
    /\ At("conj")
    /\ IF is_conjunction(sent) THEN Commit(apply_conjunction(sent, St), "conj") ELSE Skip

\* lines 93-94
RaisingControl ==
    /\ At("rc")
    /\ IF is_raising_control(sent)
       THEN Commit(apply_raising_control(sent, St, use_xsubj), "rc")
       ELSE Skip

\* lines 97-98
Relative ==
    /\ At("rel")
    /\ IF is_relative(sent) THEN Commit(apply_relative(sent, St), "rel") ELSE Skip

Next == Seed \/ Conjunction \/ RaisingControl \/ Relative

(***************************************************************************)
(* The schedule run a second time over the converted sentence, without     *)
(* seeding again; ev.first keeps the edges the first run ended with and    *)
(* ev.mark how many events it recorded.                                    *)
(***************************************************************************)
Rerun ==
    /\ pc = Done
    /\ run = 1
    /\ run' = 2
    /\ pc' = 1
    /\ ev' = [ev EXCEPT !.first = deps,
                         !.mark = [subj |-> Len(ev.subj), rw |-> Len(ev.rw)]]
    /\ UNCHANGED <<sent, use_xsubj, deps, children, err, log>>

NextRerun == Next \/ Rerun

(***************************************************************************)
(* The schedule with the detector guards removed: every rule is invoked at *)
(* its position.                                                           *)
(***************************************************************************)
ConjunctionUnguarded == At("conj") /\ Commit(apply_conjunction(sent, St), "conj")

RaisingControlUnguarded ==
    At("rc") /\ Commit(apply_raising_control(sent, St, use_xsubj), "rc")

RelativeUnguarded == At("rel") /\ Commit(apply_relative(sent, St), "rel")

NextUnguarded ==
    Seed \/ ConjunctionUnguarded \/ RaisingControlUnguarded \/ RelativeUnguarded

\* the guarded schedule from position k on, as a function of the state
RECURSIVE RunGuarded(_, _, _, _)
RunGuarded(s, st, k, xs) ==
    IF k > Len(Schedule) \/ Failed(st) THEN st
    ELSE RunGuarded(s,
             IF Schedule[k] = "conj" /\ is_conjunction(s) THEN apply_conjunction(s, st)
             ELSE IF Schedule[k] = "rc" /\ is_raising_control(s)
                  THEN apply_raising_control(s, st, xs)
             ELSE IF Schedule[k] = "rel" /\ is_relative(s) THEN apply_relative(s, st)
             ELSE st,
             k + 1, xs)

Converted(s, xs) ==
    RunGuarded(s, [deps |-> SeedDeps(s), children |-> generate_token2children(s),
                   err |-> "ok", ev |-> NoEvents], 1, xs)

(***************************************************************************)
(* Specifications.  Every sentence has MaxTok tokens; each token takes its *)
(* columns from a small set of profiles (the root keeps the profile's tags *)
(* and gets the deprel root).                                              *)
(***************************************************************************)
CorpusProfiles ==
    { Prof("acl", "NOUN", "x", "x", "x"),
      Prof("obj", "PRON", "x", "deren", "x"),
      Prof("conj", "PRON", "x", "deren", "x"),
      Prof("conj", "VERB", "x", "x", "x"),
      Prof("xcomp", "VERB", "x", "x", "x") }

RaisingProfiles ==
    { Prof("xcomp", "VERB", "x", "x", "x"),
      Prof("iobj", "PRON", "x", "x", "x"),
      Prof("obj", "NOUN", "x", "x", "x"),
      Prof("obj", "PRON", "x", "x", "PRF"),
      Prof("nsubj", "NOUN", "x", "x", "x") }

LassenProfiles ==
    { Prof("xcomp", "VERB", "x", "x", "x"),
      Prof("xcomp", "VERB", "lassen", "x", "x"),
      Prof("obj", "NOUN", "x", "x", "x") }

CoordProfiles ==
    { Prof("conj", "VERB", "x", "x", "x"),
      Prof("nsubj", "PRON", "x", "x", "x"),
      Prof("acl:relcl", "VERB", "x", "x", "x") }

ScheduleProfiles ==
    { Prof("conj", "VERB", "x", "x", "x"),
      Prof("xcomp", "VERB", "x", "x", "x"),
      Prof("acl:relcl", "VERB", "x", "x", "x") }

Init == InitWith(Sentences(MaxTok, CorpusProfiles), {FALSE})
Spec == Init /\ [][Next]_vars

SpecRerun == Init /\ [][NextRerun]_vars

SpecUnguarded == Init /\ [][NextUnguarded]_vars

InitRaising == InitWith(Sentences(MaxTok, RaisingProfiles), {FALSE})
SpecRaising == InitRaising /\ [][Next]_vars

InitLassen == InitWith(Sentences(MaxTok, LassenProfiles), BOOLEAN)
SpecLassen == InitLassen /\ [][Next]_vars

InitCoord == InitWith(Sentences(MaxTok, CoordProfiles), {FALSE})
SpecCoord == InitCoord /\ [][Next]_vars

InitSchedule == InitWith(Sentences(MaxTok, ScheduleProfiles), {FALSE})
SpecSchedule == InitSchedule /\ [][Next]_vars

ChainProfiles ==
    { Prof("conj", "NOUN", "x", "x", "x"),
      Prof("nmod", "NOUN", "x", "x", "x"),
      Prof("appos", "NOUN", "x", "x", "x") }

InitChain == InitWith(Sentences(MaxTok, ChainProfiles), {FALSE})
SpecChain == InitChain /\ [][Next]_vars

(***************************************************************************)
(* Properties.                                                             *)
(***************************************************************************)
Tokens == 1..Len(sent)

Invoked(rule) == \E k \in 1..Len(log) : log[k] = rule

Rewritten == {ev.rw[k].tok : k \in 1..Len(ev.rw)}

\* C1: once seeded, every token the relative-clause rule never rewrote still
\* holds its basic governor with its basic relation label.
BasicEdgeKept ==
    (pc >= 1 /\ err = "ok") =>
        \A t \in Tokens :
            t \notin Rewritten => DepsGet(deps[t], sent[t].head) = sent[t].deprel

\* C2: right after the relative-clause rule rewrote a token for antecedent ANT,
\* the token is in no children list but ANT's and its edges are exactly (ANT, ref).
RewrittenDetached ==
    \A k \in 1..Len(ev.rw) :
        /\ ev.rw[k].lists \subseteq {ev.rw[k].ant}
        /\ ev.rw[k].after = << <<ev.rw[k].ant, "ref">> >>

XcompLassen == {i \in Tokens : sent[i].deprel = "xcomp" /\ sent[sent[i].head].lemma = "lassen"}

Promoted(x) == \E k \in 1..Len(ev.prom) : ev.prom[k].x = x

\* C3 as stated: when some xcomp token is governed by "lassen", the
\* raising/control rule promotes a subject for no xcomp token of the sentence.
LassenSuppressesAll == XcompLassen # {} => ev.prom = <<>>

\* C3 as amended: the raising/control rule promotes no subject for the first
\* xcomp token governed by "lassen" nor for any xcomp token after it.
LassenSuppressesRest ==
    \A k \in 1..Len(ev.prom) : \A l \in XcompLassen : ev.prom[k].x < l

\* an xcomp token after a lassen-governed one whose head offers an object, left alone
LassenSuppressedLater ==
    /\ Invoked("rc")
    /\ \E l \in XcompLassen : \E x \in Tokens :
          /\ x > l
          /\ sent[x].deprel = "xcomp"
          /\ sent[sent[x].head].lemma # "lassen"
          /\ ObjectCasesSeen(sent, children[sent[x].head]) # {}
          /\ ~Promoted(x)

\* C4: for an xcomp token, the raising/control rule promotes by one case only:
\* iobj children if the head lists one, else obj children, else nsubj children.
OnePromotionCase ==
    \A k \in 1..Len(ev.prom) :
        LET e == ev.prom[k]
        IN  /\ \A j \in 1..Len(ev.prom) : ev.prom[j].x = e.x => ev.prom[j].case = e.case
            /\ e.case = 1 => 1 \in e.seen /\ sent[e.child].deprel = "iobj"
            /\ e.case = 2 => 1 \notin e.seen /\ sent[e.child].deprel = "obj"
            /\ e.case = 3 => e.seen = {}

\* an iobj child was promoted although the head also listed an obj child,
\* which got no edge into the xcomp token
IobjWinsOverObj ==
    \E k \in 1..Len(ev.prom) :
        /\ ev.prom[k].case = 1
        /\ \E o \in Tokens :
              /\ sent[o].deprel = "obj" /\ sent[o].head = sent[ev.prom[k].x].head
              /\ ObjectCase(sent, -o, "obj")
              /\ ~DepsHas(deps[o], ev.prom[k].x)

\* C5: subject sharing adds no nsubj/nsubj:pass edge into a verbal conj token
\* into which some token held such an edge when the token was processed.
NoSecondSubject == \A k \in 1..Len(ev.subj) : ~ev.subj[k].had

\* a verbal conj token with a subject of its own whose head has a subject that
\* was not shared
SubjectNotShared ==
    /\ Invoked("conj")
    /\ \E c \in Tokens :
          /\ sent[c].deprel = "conj" /\ sent[c].upos = "VERB"
          /\ \E t \in Tokens : DepsGet(deps[t], c) \in SubjRels
          /\ \E u \in Tokens :
                /\ DepsGet(deps[u], sent[c].head) \in SubjRels
                /\ ~DepsHas(deps[u], c)
          /\ \A k \in 1..Len(ev.subj) : ev.subj[k].c # c

PlainPron ==
    {k \in 1..Len(ev.rw) : ev.rw[k].branch = "plain" /\ sent[ev.rw[k].tok].upos = "PRON"}

\* C6: after the whole schedule a PRON relativizer rewritten by the plain branch
\* holds the edge (ANT, ref) and no other, and its former edges are on ANT.
RelativizerOnlyRef ==
    (pc = Done /\ err = "ok") =>
        \A k \in PlainPron :
            /\ DepsPairs(deps[ev.rw[k].tok]) = {<<ev.rw[k].ant, "ref">>}
            /\ ev.rw[k].before \subseteq DepsPairs(deps[ev.rw[k].ant])

\* C7: no rule invocation raises a KeyError.
NoKeyError == err = "ok"

\* C8: the schedule without the detector guards ends with the edges and the
\* children index of the guarded schedule.
GuardsRedundant ==
    (pc = Done \/ err # "ok") =>
        LET g == Converted(sent, use_xsubj)
        IN  deps = g.deps /\ children = g.children /\ err = g.err

HadSubjectFirst(c) == \E t \in Tokens : DepsGet(ev.first[t], c) \in SubjRels

\* C9: a second run of the schedule removes no edge the first run ended with
\* and shares no subject into a verbal conj token that had one by then.
SecondRunKeepsEdges ==
    (run = 2 /\ pc = Done) =>
        /\ \A t \in Tokens : DepsPairs(ev.first[t]) \subseteq DepsPairs(deps[t])
        /\ \A k \in (ev.mark.subj + 1)..Len(ev.subj) : ~HadSubjectFirst(ev.subj[k].c)

Detected(rule) ==
    \/ rule = "conj" /\ is_conjunction(sent)
    \/ rule = "rc" /\ is_raising_control(sent)
    \/ rule = "rel" /\ is_relative(sent)

ExpectedLog ==
    SelectSeq(<<"conj", "conj", "rc", "conj", "rel", "conj", "conj", "conj">>, Detected)

\* C10: the driver seeds first and then invokes conjunction, conjunction,
\* raising/control, conjunction, relative, conjunction x3, each iff its
\* detector holds.
ScheduleOrder ==
    /\ pc = 0 => log = <<>> /\ \A t \in Tokens : deps[t] = <<>>
    /\ pc = 1 => log = <<>> /\ \A t \in Tokens : deps[t] = << <<sent[t].head, sent[t].deprel>> >>
    /\ Len(log) <= Len(ExpectedLog)
    /\ log = SubSeq(ExpectedLog, 1, Len(log))
    /\ pc = Done => log = ExpectedLog

\* a sentence with all three phenomena, converted
FullScheduleRun ==
    /\ pc = Done
    /\ log = <<"conj", "conj", "rc", "conj", "rel", "conj", "conj", "conj">>

\* case B of the conjunction rule as the specification words it: H is a conj
\* dependent of H2, H2 has a governor, and H2's relation is not conj
ChainedCase(c) ==
    LET h == sent[c].head
    IN  /\ sent[h].deprel = "conj"
        /\ sent[sent[h].head].head # 0
        /\ sent[sent[h].head].deprel # "conj"

StandardCase(c) ==
    /\ sent[c].deprel = "conj"
    /\ sent[c].upos # "VERB"
    /\ sent[sent[c].head].head # 0
    /\ ~ChainedCase(c)

\* token c, processed in an invocation started in state st, ends with every
\* edge its governor held then (parataxis and appos apart) and is listed
\* under each such governor
SharesGovernorEdges(st, c) ==
    LET h == sent[c].head
        b == ConjLoopTo(sent, st, 1, c - 1)
        a == ConjToken(sent, b, c)
    IN  \A k \in 1..Len(b.deps[h]) :
            b.deps[h][k][2] \notin NotPropagated =>
                /\ b.deps[h][k] \in DepsPairs(a.deps[c])
                /\ \E j \in 1..Len(a.children[b.deps[h][k][1]]) :
                       Tok(a.children[b.deps[h][k][1]][j]) = c

\* C11: in an invocation of the conjunction rule, a non-VERB conj token whose
\* governor H is not the root and to which the chained case does not apply
\* receives every edge of H not labelled parataxis or appos and is attached
\* under each such governor.
StandardShares ==
    At("conj") => \A c \in Tokens : StandardCase(c) => SharesGovernorEdges(St, c)

AclUnderVerb(r) == sent[r].deprel = "acl" /\ sent[sent[r].head].upos = "VERB"

\* C12: the relative-clause rule rewrites nothing on behalf of a token with
\* deprel acl whose governor's upos is VERB.
AclUnderVerbUntouched ==
    \A k \in 1..Len(ev.rw) : ~AclUnderVerb(ev.rw[k].r)

PlainBranch(rel) ==
    /\ rel # 0
    /\ sent[rel].upos # "NOUN"
    /\ sent[rel].upos = "PRON" \/ sent[rel].lemma = "wo"
    /\ sent[rel].xpos # "PRF"

Listed(L, t) == Cardinality({j \in 1..Len(L) : Tok(L[j]) = t})

\* processing token r in an invocation started in state st gives the
\* antecedent no edge to a governor G the relativizer holds with label ref,
\* and no further entry in G's list
KeepsRefEdges(st, r) ==
    LET b == RelLoopTo(sent, st, 1, r - 1)
        rel == Relativizer(sent, b, r)
        ant == sent[r].head
        a == RelToken(sent, b, r)
    IN  (~Failed(b) /\ PlainBranch(rel) /\ ~Failed(a)) =>
            \A k \in 1..Len(b.deps[rel]) :
                b.deps[rel][k][2] = "ref" =>
                    LET G == b.deps[rel][k][1]
                    IN  /\ DepsGet(a.deps[ant], G) = DepsGet(b.deps[ant], G)
                        /\ Listed(a.children[G], ant) <= Listed(b.children[G], ant)

\* C13: the plain branch of the relative-clause rule never re-points an edge
\* labelled ref of the relativizer to the antecedent.
RefEdgeNotRepointed ==
    At("rel") =>
        \A r \in Tokens : sent[r].deprel \in {"acl:relcl", "acl"} => KeepsRefEdges(St, r)

\* C14: after every rule invocation no token has itself as an enhanced
\* governor and no token is listed in its own children list.
NoSelfLoop ==
    err = "ok" =>
        \A t \in Tokens : ~DepsHas(deps[t], t) /\ Listed(children[t], t) = 0

====
